---- MODULE Spec2Model ----
(***************************************************************************)
(* jpg2pdf: the size-constrained PDF assembler of the web server           *)
(* (createPdfFromBuffers, compressImages, generatePdfFromFiles and the     *)
(* POST /api/generate-pdf handler) and the command-line converter          *)
(* (getJpgFiles, createPdfFromImages, main).                               *)
(*                                                                         *)
(* Buffers are abstracted to what the code and the libraries read of them: *)
(* whether pdf-lib can embed them, their byte length, their pixel size and *)
(* how they were produced.  The outcome of a sharp re-encode (failure, or  *)
(* an output buffer of some length) is chosen by the environment.          *)
(***************************************************************************)
EXTENDS Integers, Sequences, FiniteSets, TLC

VARIABLES mode, pc, http, asm, hist, cli, reqs, ai

vars == <<mode, pc, http, asm, hist, cli, reqs, ai>>

(***************************************************************************)
(* Bounds of the model.                                                    *)
(***************************************************************************)
MaxFiles == 2       \* images in one request
MaxBufMiB == 2      \* length of one image buffer, in MiB
MaxBudgetMB == 2    \* largest maxSizeMB a request asks for

MiB == 1024 * 1024

(***************************************************************************)
(* Values.                                                                 *)
(***************************************************************************)
\* Upload names and pixel sizes of the images, by position in the request.
UploadNames == <<"a.jpg", "b.jpg", "c.jpg", "d.jpg">>

ImageDims == << [width |-> 3000, height |-> 2000],
                [width |-> 1000, height |-> 1500],
                [width |-> 640,  height |-> 480],
                [width |-> 2048, height |-> 2048] >>

OriginalBuffer(i, jpegOk, mib) ==
    [id |-> i, jpeg |-> jpegOk, length |-> mib * MiB,
     width |-> ImageDims[i].width, height |-> ImageDims[i].height,
     quality |-> 0, gen |-> 0]

UploadedFile(i, jpegOk, mib) ==
    [originalname |-> UploadNames[i], buffer |-> OriginalBuffer(i, jpegOk, mib)]

FileLists ==
    UNION { { [i \in 1..n |-> UploadedFile(i, ok[i], sz[i])] :
                ok \in [1..n -> BOOLEAN], sz \in [1..n -> 1..MaxBufMiB] } :
            n \in 0..MaxFiles }

NoError == [message |-> <<>>]
NoPdf == [pass |-> -1, pages |-> <<>>, length |-> 0]

\* maxSizeBytes: null, NaN or a number of bytes.
Null == [kind |-> "null", val |-> 0]
NaN == [kind |-> "nan", val |-> 0]
Num(n) == [kind |-> "num", val |-> n]

\* A variant of the truthiness test that takes the number 0 for true.
TruthyWithZero(v) == v.kind = "num"

\* JavaScript truthiness of a maxSizeBytes value (null, NaN and 0 are falsy).
Truthy(v) == v.kind = "num" /\ v.val # 0

(***************************************************************************)
(* compressionStrategies; maxWidth = 0 stands for an absent cap.           *)
(***************************************************************************)
\* A variant of the ladder of lines 152-162 with two strategies exchanged.
compressionStrategiesExchanged ==
    << [quality |-> 70, maxWidth |-> 0,    maxHeight |-> 0],
       [quality |-> 60, maxWidth |-> 0,    maxHeight |-> 0],
       [quality |-> 50, maxWidth |-> 0,    maxHeight |-> 0],
       [quality |-> 40, maxWidth |-> 2048, maxHeight |-> 2048],
       [quality |-> 35, maxWidth |-> 1920, maxHeight |-> 1920],
       [quality |-> 30, maxWidth |-> 1600, maxHeight |-> 1600],
       [quality |-> 25, maxWidth |-> 1200, maxHeight |-> 1200],
       [quality |-> 15, maxWidth |-> 800,  maxHeight |-> 800],
       [quality |-> 20, maxWidth |-> 1024, maxHeight |-> 1024] >>

\* const compressionStrategies = [...]  (lines 152-162)
compressionStrategies ==
    << [quality |-> 70, maxWidth |-> 0,    maxHeight |-> 0],
       [quality |-> 60, maxWidth |-> 0,    maxHeight |-> 0],
       [quality |-> 50, maxWidth |-> 0,    maxHeight |-> 0],
       [quality |-> 40, maxWidth |-> 2048, maxHeight |-> 2048],
       [quality |-> 35, maxWidth |-> 1920, maxHeight |-> 1920],
       [quality |-> 30, maxWidth |-> 1600, maxHeight |-> 1600],
       [quality |-> 25, maxWidth |-> 1200, maxHeight |-> 1200],
       [quality |-> 20, maxWidth |-> 1024, maxHeight |-> 1024],
       [quality |-> 15, maxWidth |-> 800,  maxHeight |-> 800] >>

LadderLen == Len(compressionStrategies)

(***************************************************************************)
(* sharp: resize({fit: 'inside', withoutEnlargement: true}) and            *)
(* jpeg({quality}).toBuffer(), lines 98-114.                               *)
(***************************************************************************)
Round(a, b) == (2 * a + b) \div (2 * b)

\* Pixel size after resize(maxWidth, maxHeight): scaled down uniformly so that
\* both sides fit inside the caps, never enlarged.
ResizeInside(w, h, maxWidth, maxHeight) ==
    LET capW == IF maxWidth = 0 THEN w ELSE maxWidth
        capH == IF maxHeight = 0 THEN h ELSE maxHeight
    IN  IF w <= capW /\ h <= capH
        THEN [width |-> w, height |-> h]
        ELSE IF w * capH >= h * capW
             THEN [width |-> capW, height |-> Round(h * capW, w)]
             ELSE [width |-> Round(w * capH, h), height |-> capH]

\* What the environment decides of one re-encode: sharp throws, or it yields
\* a buffer that pdf-lib can or cannot embed.  The output is as short as the
\* shortest buffer or as long as the longest one: nothing bounds it by the
\* length of the input, or by the output of the strategy before.
SharpLengthsMiB == {1, MaxBufMiB}

SharpOutcomes ==
    {[kind |-> "fail", mib |-> 0, jpeg |-> FALSE]}
    \cup {[kind |-> "ok", mib |-> s, jpeg |-> TRUE] : s \in SharpLengthsMiB}
    \cup {[kind |-> "ok", mib |-> 1, jpeg |-> FALSE]}

\* The buffer sharp returns for `buffer` under `options` (lines 98-114).
SharpReencode(buffer, options, outcome) ==
    LET dims == IF options.maxWidth # 0 \/ options.maxHeight # 0
                THEN ResizeInside(buffer.width, buffer.height,
                                  options.maxWidth, options.maxHeight)
                ELSE [width |-> buffer.width, height |-> buffer.height]
    IN  [id |-> buffer.id, jpeg |-> outcome.jpeg, length |-> outcome.mib * MiB,
         width |-> dims.width, height |-> dims.height,
         quality |-> options.quality, gen |-> buffer.gen + 1]

(***************************************************************************)
(* compressImages(files, options), lines 90-130.  `outcomes[i]` is what    *)
(* sharp does with files[i].  The result is the returned list, or threw =  *)
(* TRUE when an exception leaves the function.                             *)
(***************************************************************************)
RECURSIVE CompressLoop(_, _, _, _, _)

\* A variant of the catch of lines 123-126 that leaves the failing image out.
CompressCatchDrops(files, options, outcomes, i, compressedFiles) ==
    CompressLoop(files, options, outcomes, i + 1, compressedFiles)

\* A variant of the catch of lines 123-126 that lets the error out.
CompressCatchRethrows(files, options, outcomes, i, compressedFiles) ==
    [threw |-> TRUE, files |-> compressedFiles]

\* A variant of the catch of lines 123-126 that pushes the first file of the
\* list in place of the failing one.
CompressCatchPushesFirst(files, options, outcomes, i, compressedFiles) ==
    CompressLoop(files, options, outcomes, i + 1, Append(compressedFiles, files[1]))

\* catch (error) { compressedFiles.push(file); }  (lines 123-126)
CompressCatch(files, options, outcomes, i, compressedFiles) ==
    CompressLoop(files, options, outcomes, i + 1, Append(compressedFiles, files[i]))

\* try { ...; compressedFiles.push({...file, buffer: compressedBuffer}); }
CompressTry(files, options, outcomes, i, compressedFiles) ==
    CompressLoop(files, options, outcomes, i + 1,
                 Append(compressedFiles,
                        [files[i] EXCEPT !.buffer =
                            SharpReencode(files[i].buffer, options, outcomes[i])]))

CompressLoop(files, options, outcomes, i, compressedFiles) ==
    IF i > Len(files)
    THEN [threw |-> FALSE, files |-> compressedFiles]
    ELSE IF outcomes[i].kind = "fail"
         THEN CompressCatch(files, options, outcomes, i, compressedFiles)
         ELSE CompressTry(files, options, outcomes, i, compressedFiles)

compressImages(files, options, outcomes) ==
    CompressLoop(files, options, outcomes, 1, <<>>)

(***************************************************************************)
(* generatePdfFromFiles(files), lines 185-212.                             *)
(***************************************************************************)
\* pdfDoc.embedJpg(file.buffer) succeeds exactly on buffers pdf-lib can parse.
EmbedJpg(buffer) == buffer.jpeg

\* A variant of lines 194-203 that lays every image out on an A4 page.
AddImagePageA4(buffer) ==
    [image |-> buffer,
     width |-> 595, height |-> 842,
     x |-> 0, y |-> 0,
     drawWidth |-> 595, drawHeight |-> (buffer.height * 595) \div buffer.width]

\* image.scale(1), addPage([w, h]) and drawImage(image, {x, y, width, height}).
AddImagePage(buffer) ==
    [image |-> buffer,
     width |-> buffer.width * 1, height |-> buffer.height * 1,
     x |-> 0, y |-> 0,
     drawWidth |-> buffer.width * 1, drawHeight |-> buffer.height * 1]

\* Decimal digits of a small number, as template literals print it.
DecimalStrings == <<"0", "1", "2", "3", "4", "5", "6", "7", "8", "9">>
Decimal(n) == DecimalStrings[n + 1]

\* console.log(`Processing image ${i + 1}: ${file.originalname}`)  (line 191);
\* positions are counted from 1 here, so i + 1 of the code is i.
ProcessingLog(files, i) ==
    <<"Processing image ", Decimal(i), ": ", files[i].originalname>>

\* A variant of the error of line 207 that does not say which file failed.
ProcessErrorAnonymous(file) ==
    [message |-> <<"Failed to process image", ": ", "SOI not found in JPEG">>]

\* new Error(`Failed to process ${file.originalname}: ${error.message}`)
ProcessError(file) ==
    [message |-> <<"Failed to process ", file.originalname, ": ", "SOI not found in JPEG">>]

RECURSIVE SumLengths(_)
SumLengths(pages) ==
    IF pages = <<>> THEN 0
    ELSE Head(pages).image.length + SumLengths(Tail(pages))

\* pdfDoc.save(): the JPEG streams are stored as they are, so the length of
\* the serialised document follows the lengths of the embedded buffers.
PdfSave(pages) == [pages |-> pages, length |-> SumLengths(pages)]

RECURSIVE GenLoop(_, _, _)

\* A variant of the catch of lines 205-208 that goes on without the image.
GenCatchSkips(files, i, pages) == GenLoop(files, i + 1, pages)

\* catch (error) { throw new Error(`Failed to process ...`); }  (lines 205-208)
GenCatch(files, i, pages) ==
    [ok |-> FALSE, pdf |-> [pages |-> <<>>, length |-> 0], at |-> i,
     error |-> ProcessError(files[i]), embeds |-> i, log |-> ProcessingLog(files, i)]

GenLoop(files, i, pages) ==
    IF i > Len(files)
    THEN [ok |-> TRUE, pdf |-> PdfSave(pages), at |-> 0,
          error |-> NoError, embeds |-> Len(files),
          log |-> IF files = <<>> THEN <<>> ELSE ProcessingLog(files, Len(files))]
    ELSE IF EmbedJpg(files[i].buffer)
         THEN GenLoop(files, i + 1, Append(pages, AddImagePage(files[i].buffer)))
         ELSE GenCatch(files, i, pages)

generatePdfFromFiles(files) == GenLoop(files, 1, <<>>)

(***************************************************************************)
(* createPdfFromBuffers(files, maxSizeBytes), lines 132-183.               *)
(***************************************************************************)
\* A PDF byte buffer, tagged with the pass that produced it (0: the original
\* images, k: ladder strategy k).
PdfOfPass(k, pdf) == [pass |-> k, pages |-> pdf.pages, length |-> pdf.length]

NoReturn == [kind |-> "none", pdf |-> NoPdf, error |-> NoError]

AsmIdle ==
    [files |-> <<>>, maxSizeBytes |-> Null, currentFiles |-> <<>>,
     pdfBytes |-> NoPdf, k |-> 0, compressedFiles |-> <<>>, ret |-> NoReturn]

AsmCall(files, maxSizeBytes) ==
    [AsmIdle EXCEPT !.files = files, !.maxSizeBytes = maxSizeBytes]

\* The end of a call: the locals are gone, the caller holds its arguments and
\* the value returned or the error thrown.
ReturnPdf(a, pdf) ==
    [AsmIdle EXCEPT !.files = a.files, !.maxSizeBytes = a.maxSizeBytes,
                    !.ret = [kind |-> "value", pdf |-> pdf, error |-> NoError]]
Throw(a, error) ==
    [AsmIdle EXCEPT !.files = a.files, !.maxSizeBytes = a.maxSizeBytes,
                    !.ret = [kind |-> "error", pdf |-> NoPdf, error |-> error]]

\* minBefore: the shortest PDF among the passes before the current one, kept
\* for the direct calls with a budget (mode "budget").  allFailed: sharp has
\* failed on every image at every strategy so far, kept for the direct calls
\* of mode "recompress".
HistInit ==
    [genCalls |-> 0, compressCalls |-> 0, embeds |-> 0,
     attempted |-> <<>>, measuredOver |-> {}, measuredFit |-> {},
     cmpInput |-> <<>>, sharpFailed |-> {}, failedPass |-> -1, failedAt |-> 0,
     lastLog |-> <<>>, failedBuffer |-> OriginalBuffer(1, TRUE, 1),
     minBefore |-> 0, allFailed |-> TRUE]

\* A variant of createPdfFromBuffers without the guard of line 133.
NoFilesProvidedUnchecked(files) == FALSE

\* if (!files || files.length === 0)  (line 133)
NoFilesProvided(files) == Len(files) = 0

EmptyInputError == [message |-> <<"No files provided">>]

\* A variant of the test of line 148 that also compresses a PDF exactly as
\* long as the limit.
ExceedsLimitInclusive(pdf, maxSizeBytes) ==
    Truthy(maxSizeBytes) /\ pdf.length >= maxSizeBytes.val

\* A variant of line 148 that compresses only while the AI service is
\* available.
ExceedsLimitWhenAIAvailable(pdf, maxSizeBytes) ==
    ai.available /\ Truthy(maxSizeBytes) /\ pdf.length > maxSizeBytes.val

\* if (maxSizeBytes && pdfBytes.length > maxSizeBytes)  (line 148)
ExceedsLimit(pdf, maxSizeBytes) ==
    Truthy(maxSizeBytes) /\ pdf.length > maxSizeBytes.val

\* A variant of the test of line 172 that rejects a PDF exactly as long as
\* the limit.
MeetsLimitStrict(pdf, maxSizeBytes) == pdf.length < maxSizeBytes.val

\* if (compressedPdfBytes.length <= maxSizeBytes)  (line 172)
MeetsLimit(pdf, maxSizeBytes) == pdf.length <= maxSizeBytes.val

\* A variant of line 165 that compresses what the strategy before produced:
\* the images of the last attempt, once there is one.
CompressInputPrevious(a) ==
    IF a.pdfBytes.pass >= 1
    THEN [i \in 1..Len(a.files) |->
            [a.files[i] EXCEPT !.buffer = a.pdfBytes.pages[i].image]]
    ELSE a.files

\* The first argument of compressImages(files, strategy)  (line 165)
CompressInput(a) == a.files

\* A variant of lines 179-182 that rejects the request when no strategy met
\* the limit.
LadderExhaustedThrows(a, pdfBytes) ==
    Throw(a, [message |-> <<"Could not achieve size limit">>])

\* Lines 179-182: the ladder is exhausted, the last attempt is returned.
LadderExhausted(a, pdfBytes) == ReturnPdf(a, pdfBytes)

\* for (const strategy of compressionStrategies): is there a further strategy,
\* and which one.
HasNextStrategy(k) == k < LadderLen

\* A variant of the loop that tries the second strategy again and again.
NextStrategyRepeats(k) == IF k = 2 THEN 2 ELSE k + 1

NextStrategy(k) == k + 1

\* Lines 132-148: the guard, the pass over the original images and the
\* decision to compress.
AsmStart ==
    /\ pc = "asm_start"
    /\ IF NoFilesProvided(asm.files)
       THEN /\ asm' = Throw(asm, EmptyInputError)
            /\ pc' = "asm_done"
            /\ hist' = hist
       ELSE LET g == generatePdfFromFiles(asm.files)
                h == [hist EXCEPT !.genCalls = @ + 1, !.embeds = @ + g.embeds,
                                  !.lastLog = g.log]
            IN  IF ~g.ok
                THEN /\ asm' = Throw(asm, g.error)
                     /\ pc' = "asm_done"
                     /\ hist' = [h EXCEPT !.failedPass = 0, !.failedAt = g.at]
                ELSE IF ExceedsLimit(g.pdf, asm.maxSizeBytes)
                     THEN /\ asm' = [asm EXCEPT !.currentFiles = asm.files,
                                                !.pdfBytes = PdfOfPass(0, g.pdf),
                                                !.k = 1]
                          /\ pc' = "ladder_compress"
                          /\ hist' = [h EXCEPT !.minBefore = IF mode = "budget"
                                                          THEN g.pdf.length ELSE @]
                     ELSE /\ asm' = ReturnPdf(asm, PdfOfPass(0, g.pdf))
                          /\ pc' = "asm_done"
                          /\ hist' = h
    /\ UNCHANGED <<mode, http, cli, reqs, ai>>

\* A variant of lines 116-119 that writes the compressed buffer into the file
\* object it was given (file.buffer = compressedBuffer).
FilesAfterCompressInPlace(files, options, outcomes) ==
    compressImages(files, options, outcomes).files

\* The caller's list after compressImages(files, options): line 116 spreads
\* each file into a new object and line 125 pushes the file itself, so no file
\* object of the list is written.
FilesAfterCompress(files, options, outcomes) == files

\* Line 165: compressImages(files, strategy) for the current strategy.
LadderCompress ==
    /\ pc = "ladder_compress"
    /\ \E outcomes \in [1..Len(CompressInput(asm)) -> SharpOutcomes] :
         LET input == CompressInput(asm)
             r == compressImages(input, compressionStrategies[asm.k], outcomes)
             h == [hist EXCEPT !.compressCalls = @ + 1,
                               !.attempted = Append(@, asm.k),
                               !.cmpInput = input,
                               !.sharpFailed =
                                   {i \in 1..Len(input) : outcomes[i].kind = "fail"},
                               !.allFailed =
                                   IF mode = "recompress"
                                   THEN @ /\ \A i \in 1..Len(input) :
                                                 outcomes[i].kind = "fail"
                                   ELSE @]
         IN  IF r.threw
             THEN /\ asm' = Throw(asm, [message |->
                                <<"Input buffer contains unsupported image format">>])
                  /\ pc' = "asm_done"
                  /\ hist' = h
             ELSE /\ asm' = [asm EXCEPT
                               !.files = FilesAfterCompress(
                                           input, compressionStrategies[asm.k], outcomes),
                               !.compressedFiles = r.files]
                  /\ pc' = "ladder_generate"
                  /\ hist' = h
    /\ UNCHANGED <<mode, http, cli, reqs, ai>>

\* Lines 166-182: the pass over the compressed images, the measurement, and
\* the return or the step to the next strategy.
LadderGenerate ==
    /\ pc = "ladder_generate"
    /\ LET g == generatePdfFromFiles(asm.compressedFiles)
           compressedPdfBytes == PdfOfPass(asm.k, g.pdf)
           h == [hist EXCEPT !.genCalls = @ + 1, !.embeds = @ + g.embeds,
                             !.lastLog = g.log]
           \* What was measured of this strategy, whatever is done about it.
           m == [h EXCEPT
                   !.measuredOver = IF compressedPdfBytes.length > asm.maxSizeBytes.val
                                    THEN @ \cup {asm.k} ELSE @,
                   !.measuredFit = IF compressedPdfBytes.length > asm.maxSizeBytes.val
                                   THEN @ ELSE @ \cup {asm.k}]
       IN  IF ~g.ok
           THEN /\ asm' = Throw(asm, g.error)
                /\ pc' = "asm_done"
                /\ hist' = [h EXCEPT !.failedPass = asm.k, !.failedAt = g.at,
                                     !.failedBuffer = asm.compressedFiles[g.at].buffer]
           ELSE IF MeetsLimit(compressedPdfBytes, asm.maxSizeBytes)
                THEN /\ asm' = ReturnPdf(asm, compressedPdfBytes)
                     /\ pc' = "asm_done"
                     /\ hist' = m
                ELSE IF HasNextStrategy(asm.k)
                     THEN /\ asm' = [asm EXCEPT !.pdfBytes = compressedPdfBytes,
                                                !.compressedFiles = <<>>,
                                                !.k = NextStrategy(asm.k)]
                          /\ pc' = "ladder_compress"
                          /\ hist' = [m EXCEPT !.minBefore =
                                          IF /\ mode = "budget"
                                             /\ compressedPdfBytes.length < @
                                          THEN compressedPdfBytes.length ELSE @]
                     ELSE /\ asm' = LadderExhausted(asm, compressedPdfBytes)
                          /\ pc' = "asm_done"
                          /\ hist' = m
    /\ UNCHANGED <<mode, http, cli, reqs, ai>>

(***************************************************************************)
(* POST /api/generate-pdf, lines 214-240.                                  *)
(***************************************************************************)
\* parseFloat of a form field: a decimal string, or not a number.
ParseFloat(text) ==
    IF \E n \in 1..Len(DecimalStrings) : DecimalStrings[n] = text
    THEN Num((CHOOSE n \in 1..Len(DecimalStrings) : DecimalStrings[n] = text) - 1)
    ELSE NaN

Times(v, n) == IF v.kind = "num" THEN Num(v.val * n) ELSE v

\* req.body.maxSizeMB: absent, or a string.
FieldAbsent == [present |-> FALSE, text |-> ""]
Field(text) == [present |-> TRUE, text |-> text]
FieldTruthy(f) == f.present /\ f.text # ""

MaxSizeMBFields ==
    {FieldAbsent, Field(""), Field("abc")}
    \cup {Field(DecimalStrings[n + 1]) : n \in 0..MaxBudgetMB}

\* Lines 222-226.
MaxSizeBytesOf(field) ==
    IF FieldTruthy(field) THEN Times(Times(ParseFloat(field.text), 1024), 1024)
    ELSE Null

NoResponse == [status |-> 0, type |-> "none", error |-> <<>>, pdf |-> NoPdf]

HttpIdle ==
    [filesDefined |-> FALSE, files |-> <<>>, maxSizeMB |-> FieldAbsent,
     response |-> NoResponse]

\* Lines 216-228: the guard on req.files and the call of createPdfFromBuffers.
HttpReceive ==
    /\ pc = "http_recv"
    /\ IF ~http.filesDefined \/ Len(http.files) = 0
       THEN /\ http' = [http EXCEPT !.response =
                          [status |-> 400, type |-> "json",
                           error |-> <<"No images uploaded">>, pdf |-> NoPdf]]
            /\ pc' = "http_done"
            /\ asm' = asm
       ELSE /\ asm' = AsmCall(http.files, MaxSizeBytesOf(http.maxSizeMB))
            /\ pc' = "asm_start"
            /\ http' = http
    /\ UNCHANGED <<mode, hist, cli, reqs, ai>>

\* Lines 230-239: the PDF body, or the catch that answers 500.
HttpRespond ==
    /\ pc = "asm_done"
    /\ mode = "http"
    /\ IF asm.ret.kind = "value"
       THEN http' = [http EXCEPT !.response =
                        [status |-> 200, type |-> "pdf", error |-> <<>>,
                         pdf |-> asm.ret.pdf]]
       ELSE http' = [http EXCEPT !.response =
                        [status |-> 500, type |-> "json",
                         error |-> asm.ret.error.message, pdf |-> NoPdf]]
    /\ pc' = "http_done"
    /\ UNCHANGED <<mode, asm, hist, cli, reqs, ai>>

(***************************************************************************)
(* The command-line converter, src/backend/pdf-generator.js.  File names   *)
(* are sequences of characters.                                            *)
(***************************************************************************)
\* The characters of the names, in the order of their UTF-16 code units.
CodeUnits == <<".", "B", "D", "F", "G", "J", "P", "a", "b", "c", "d", "e", "f", "g", "j", "n", "p", "t", "x">>

CodeOf(c) == CHOOSE i \in 1..Len(CodeUnits) : CodeUnits[i] = c

UpperCase == <<"B", "D", "F", "G", "J", "P">>
LowerCase == <<"b", "d", "f", "g", "j", "p">>

\* String.prototype.toLowerCase
CharToLower(c) ==
    IF \E i \in 1..Len(UpperCase) : UpperCase[i] = c
    THEN LowerCase[CHOOSE i \in 1..Len(UpperCase) : UpperCase[i] = c]
    ELSE c

ToLowerCase(str) == [i \in 1..Len(str) |-> CharToLower(str[i])]

\* path.extname: from the last dot to the end; empty when there is no dot or
\* the only dot opens the name.
LastDot(name) ==
    IF \E i \in 1..Len(name) : name[i] = "."
    THEN CHOOSE i \in 1..Len(name) :
            name[i] = "." /\ \A j \in (i + 1)..Len(name) : name[j] # "."
    ELSE 0

extname(name) ==
    IF LastDot(name) <= 1 THEN <<>> ELSE SubSeq(name, LastDot(name), Len(name))

\* The filter of getJpgFiles (lines 14-17).
IsJpgName(file) ==
    LET ext == ToLowerCase(extname(file))
    IN  ext = <<".", "j", "p", "g">> \/ ext = <<".", "j", "p", "e", "g">>

\* The order of Array.prototype.sort() without a comparator: by code units.
RECURSIVE CodeUnitLess(_, _)
CodeUnitLess(a, b) ==
    IF b = <<>> THEN FALSE
    ELSE IF a = <<>> THEN TRUE
    ELSE IF CodeOf(Head(a)) # CodeOf(Head(b)) THEN CodeOf(Head(a)) < CodeOf(Head(b))
    ELSE CodeUnitLess(Tail(a), Tail(b))

RECURSIVE SortNames(_)
SortNames(names) ==
    IF names = {} THEN <<>>
    ELSE LET first == CHOOSE n \in names : \A m \in names \ {n} : CodeUnitLess(n, m)
         IN  <<first>> \o SortNames(names \ {first})

\* getJpgFiles: files.filter(...).sort()  (lines 13-18)
getJpgFiles(files) == SortNames({f \in files : IsJpgName(f)})

\* The entries a directory may hold.
DirPool ==
    { <<"a", ".", "j", "p", "g">>,
      <<"B", ".", "J", "P", "G">>,
      <<"c", ".", "j", "p", "e", "g">>,
      <<"d", ".", "p", "n", "g">>,
      <<".", "j", "p", "g">>,
      <<"a", ".", "j", "p", "g", ".", "t", "x", "t">> }

\* What the environment decides of one file: readFile fails, embedJpg fails,
\* or the page is added.
CliFileOutcomes == {"ok", "readFile", "embedJpg"}

CliBuffer(j) ==
    [id |-> j, jpeg |-> TRUE, length |-> MiB,
     width |-> ImageDims[j].width, height |-> ImageDims[j].height,
     quality |-> 0, gen |-> 0]

\* The loop of createPdfFromImages (lines 36-60): the pages added before the
\* first failure, and the position of that failure (0: none).
RECURSIVE CliLoop(_, _, _, _)

\* A variant of the catch of lines 56-59 that logs the error and goes on with
\* the next file.
CliCatchContinues(jpgFiles, outcomes, j, pages) ==
    CliLoop(jpgFiles, outcomes, j + 1, pages)

\* catch (error) { console.error(...); throw error; }  (lines 56-59)
CliCatch(jpgFiles, outcomes, j, pages) ==
    [ok |-> FALSE, pages |-> pages, at |-> j, error |-> <<outcomes[j], " failed">>]

CliLoop(jpgFiles, outcomes, j, pages) ==
    IF j > Len(jpgFiles)
    THEN [ok |-> TRUE, pages |-> pages, at |-> 0, error |-> <<>>]
    ELSE IF outcomes[j] = "ok"
         THEN CliLoop(jpgFiles, outcomes, j + 1,
                      Append(pages, [name |-> jpgFiles[j], page |-> AddImagePage(CliBuffer(j))]))
         ELSE CliCatch(jpgFiles, outcomes, j, pages)

\* if (jpgFiles.length === 0)  (line 27)
NoJpgFiles(jpgFiles) == Len(jpgFiles) = 0

CliInit(dir) ==
    [dir |-> dir, jpgFiles |-> <<>>, docsCreated |-> 0, pages |-> <<>>,
     listed |-> FALSE, written |-> FALSE, output |-> <<>>, exit |-> -1,
     error |-> <<>>]

CliIdle == CliInit({})

\* main, lines 68-71 and 78-81: getJpgFiles, or the exit when readdir fails.
CliGetJpgFiles ==
    /\ pc = "cli_start"
    /\ \E readdirOk \in BOOLEAN :
         IF readdirOk
         THEN /\ cli' = [cli EXCEPT !.listed = TRUE,
                                      !.jpgFiles = getJpgFiles(cli.dir)]
              /\ pc' = "cli_create"
         ELSE /\ cli' = [cli EXCEPT !.exit = 1,
                            !.error = <<"Error reading input directory: ", "ENOENT">>]
              /\ pc' = "cli_done"
    /\ UNCHANGED <<mode, http, asm, hist, reqs, ai>>

\* createPdfFromImages and the rest of main (lines 26-64, 73-81).
CliCreatePdf ==
    /\ pc = "cli_create"
    /\ IF NoJpgFiles(cli.jpgFiles)
       THEN cli' = [cli EXCEPT !.exit = 1,
                       !.error = <<"No JPG files found in input directory">>]
       ELSE \E outcomes \in [1..Len(cli.jpgFiles) -> CliFileOutcomes], writeOk \in BOOLEAN :
              LET r == CliLoop(cli.jpgFiles, outcomes, 1, <<>>)
              IN  IF ~r.ok
                  THEN cli' = [cli EXCEPT !.docsCreated = 1, !.pages = r.pages,
                                          !.exit = 1, !.error = r.error]
                  ELSE IF writeOk
                       THEN cli' = [cli EXCEPT !.docsCreated = 1, !.pages = r.pages,
                                               !.written = TRUE, !.output = r.pages,
                                               !.exit = 0]
                       ELSE cli' = [cli EXCEPT !.docsCreated = 1, !.pages = r.pages,
                                               !.exit = 1,
                                               !.error = <<"writeFile", " failed">>]
    /\ pc' = "cli_done"
    /\ UNCHANGED <<mode, http, asm, hist, reqs, ai>>

(***************************************************************************)
(* The AI endpoints, lines 15-71 and 246-421.  Strings are sequences of    *)
(* characters; "e-acute" stands for one character outside ASCII.           *)
(***************************************************************************)
Whitespace == {" "}
Quotes == {"\"", "'"}
NonAscii == {"e-acute"}
ForbiddenChars == {"<", ">", ":", "\"", "/", "\\", "|", "?", "*"}

\* String.prototype.trim
RECURSIVE TrimStart(_)
TrimStart(str) ==
    IF str # <<>> /\ Head(str) \in Whitespace THEN TrimStart(Tail(str)) ELSE str

RECURSIVE TrimEnd(_)
TrimEnd(str) ==
    IF str # <<>> /\ str[Len(str)] \in Whitespace
    THEN TrimEnd(SubSeq(str, 1, Len(str) - 1))
    ELSE str

Trim(str) == TrimEnd(TrimStart(str))

\* .replace(/^["']|["']$/g, '')  (line 391)
StripQuotes(str) ==
    LET a == IF str # <<>> /\ Head(str) \in Quotes THEN Tail(str) ELSE str
    IN  IF a # <<>> /\ a[Len(a)] \in Quotes THEN SubSeq(a, 1, Len(a) - 1) ELSE a

\* .replace(/[...]/g, '') for a class of characters.
RemoveChars(str, class) == SelectSeq(str, LAMBDA c : c \notin class)

\* String.prototype.endsWith
EndsWith(str, suffix) ==
    /\ Len(str) >= Len(suffix)
    /\ SubSeq(str, Len(str) - Len(suffix) + 1, Len(str)) = suffix

\* String.prototype.slice(0, n) for n >= 0 and slice(0, -n).
SliceTo(str, n) == SubSeq(str, 1, IF n < Len(str) THEN n ELSE Len(str))
SliceOff(str, n) == SubSeq(str, 1, IF Len(str) > n THEN Len(str) - n ELSE 0)

DotPdf == <<".", "p", "d", "f">>

\* cleanFilename.length > 50 and nameWithoutExt.slice(0, 46)  (lines 400-402)
MaxFilenameLength == 50
MaxNameWithoutExt == 46

\* Lines 390-394.
CleanFilename(filename) ==
    Trim(RemoveChars(RemoveChars(StripQuotes(Trim(filename)), NonAscii),
                     ForbiddenChars))

\* Lines 396-398.
WithPdfExtension(cleanFilename) ==
    IF EndsWith(ToLowerCase(cleanFilename), DotPdf)
    THEN cleanFilename
    ELSE cleanFilename \o DotPdf

\* A variant of lines 400-403 that returns long names as they are.
TruncateFilenameNever(cleanFilename) ==
    [name |-> cleanFilename, truncated |-> FALSE]

\* Lines 400-403.
TruncateFilename(cleanFilename) ==
    IF Len(cleanFilename) > MaxFilenameLength
    THEN [name |-> SliceTo(SliceOff(cleanFilename, 4), MaxNameWithoutExt) \o DotPdf,
          truncated |-> TRUE]
    ELSE [name |-> cleanFilename, truncated |-> FALSE]

\* Lines 390-403: the filename answered for what the AI service returned.
GeneratedFilename(filename) ==
    TruncateFilename(WithPdfExtension(CleanFilename(filename)))

\* What the AI service may return as a filename: a name of some length, with
\* or without quotes and blanks around it, characters the cleaning removes,
\* and an extension.
MaxNameLen == 52

RECURSIVE Letters(_)
Letters(n) == IF n = 0 THEN <<>> ELSE <<"a">> \o Letters(n - 1)

AiFilenames ==
    { pre \o Letters(n) \o mid \o ext \o post :
        pre \in {<<>>, <<" ", "\"">>},
        n \in {0, 1} \cup (44..MaxNameLen),
        mid \in {<<>>, <<"e-acute", "/">>, <<" ">>},
        ext \in {<<>>, DotPdf, <<".", "P", "D", "F">>},
        post \in {<<>>, <<"\"", " ">>} }

AiSummaries == { <<"p", "a", "s", "s">>, <<" ", "i", "d", " ">>, <<>> }

\* The requests to the AI endpoints in flight at once.
AiRequests == {1, 2}

NoAiResponse ==
    [status |-> 0, available |-> "none", result |-> "none", value |-> <<>>,
     truncated |-> FALSE, error |-> <<>>]

\* res.json({available: false, summary/filename: null, error})
AiUnavailableResponse(error) ==
    [status |-> 200, available |-> "false", result |-> "null", value |-> <<>>,
     truncated |-> FALSE, error |-> error]

\* res.status(400).json({error})
AiBadRequestResponse(error) ==
    [status |-> 400, available |-> "none", result |-> "none", value |-> <<>>,
     truncated |-> FALSE, error |-> error]

\* res.json({available: true, summary/filename})
AiResultResponse(value, truncated) ==
    [status |-> 200, available |-> "true", result |-> "string", value |-> value,
     truncated |-> truncated, error |-> <<>>]

\* kind: the endpoint; body: "valid", "invalid" (fails the validation of
\* lines 266 and 330) or "malformed" (passes it and makes the handler throw
\* before the call, e.g. images: [42]); flagRead: what line 256 or 320 read;
\* calls: the requests sent to the AI service.
AiRequestIdle ==
    [kind |-> "none", body |-> "none", pc |-> "none", flagRead |-> "none",
     calls |-> 0, response |-> NoAiResponse]

AiRequest(kind, body) ==
    [AiRequestIdle EXCEPT !.kind = kind, !.body = body, !.pc = "recv"]

AiKinds == {"analyze", "generate-filename"}
AiBodies == {"valid", "invalid", "malformed"}

\* aiServiceAvailable (line 15) and the requests.
AiIdle == [available |-> FALSE, req |-> [r \in AiRequests |-> AiRequestIdle]]

ValidationError(kind) ==
    IF kind = "analyze" THEN <<"No images provided">>
    ELSE <<"Either summary or images are required">>

\* A variant of the catch blocks of lines 307-315 and 412-420 that leaves the
\* flag as it is.
AvailableAfterCatchUnchanged(available) == available

\* aiServiceAvailable = false  (lines 309 and 414)
AvailableAfterCatch(available) == FALSE

\* A variant of lines 256 and 320 that validates the body first.
AiGuardAfterValidation(available, body) == ~available /\ body # "invalid"

\* if (!aiServiceAvailable)  (lines 256 and 320)
AiGuard(available, body) == ~available

(***************************************************************************)
(* Concurrent invocations of createPdfFromBuffers.  Each invocation has    *)
(* its own frame of locals (files, maxSizeBytes, pdfBytes, the position in *)
(* the ladder, the compressedFiles of compressImages, the pdfDoc of        *)
(* generatePdfFromFiles) and runs from one await to the next: one sharp    *)
(* re-encode (line 114), one embedJpg (line 193), one save (line 211).     *)
(* sharp is a deterministic collaborator here: `oracle` fixes what it does *)
(* with image i at strategy k.                                             *)
(***************************************************************************)
\* The invocations in flight at once.
Requests == {1, 2}

NoOracle == [shortFrom |-> 0, failAt |-> 0, badAt |-> 0]

\* shortFrom: the first strategy whose output is short; failAt: the strategy
\* at which sharp throws on the first image; badAt: the strategy at which the
\* output for the first image is not a JPEG pdf-lib can embed.
SharpOracles ==
    { [shortFrom |-> 1, failAt |-> 0, badAt |-> 0],
      [shortFrom |-> 5, failAt |-> 0, badAt |-> 0],
      [shortFrom |-> LadderLen + 1, failAt |-> 2, badAt |-> 0],
      [shortFrom |-> LadderLen + 1, failAt |-> 0, badAt |-> 3] }

OracleOutcome(oracle, k, i) ==
    IF oracle.failAt = k /\ i = 1
    THEN [kind |-> "fail", mib |-> 0, jpeg |-> FALSE]
    ELSE IF oracle.badAt = k /\ i = 1
         THEN [kind |-> "ok", mib |-> 1, jpeg |-> FALSE]
         ELSE [kind |-> "ok", jpeg |-> TRUE,
               mib |-> IF k >= oracle.shortFrom THEN 1 ELSE MaxBufMiB]

FrameIdle ==
    [files |-> <<>>, maxSizeBytes |-> Null, oracle |-> NoOracle, pc |-> "none",
     k |-> 0, i |-> 0, compressedFiles |-> <<>>, pages |-> <<>>,
     pdfBytes |-> NoPdf, ret |-> NoReturn, flags |-> {}]

ReqsIdle == [r \in Requests |-> FrameIdle]

FrameCall(files, maxSizeBytes, oracle) ==
    [FrameIdle EXCEPT !.files = files, !.maxSizeBytes = maxSizeBytes,
                      !.oracle = oracle, !.pc = "enter"]

\* The end of an invocation: its locals are gone, its result stays.
FrameReturn(f, pdf) ==
    [FrameCall(f.files, f.maxSizeBytes, f.oracle) EXCEPT
        !.pc = "done", !.ret = [kind |-> "value", pdf |-> pdf, error |-> NoError]]
FrameThrow(f, error) ==
    [FrameCall(f.files, f.maxSizeBytes, f.oracle) EXCEPT
        !.pc = "done", !.ret = [kind |-> "error", pdf |-> NoPdf, error |-> error]]

\* A variant in which the position in the ladder is one module-level variable
\* that every invocation inside the ladder reads and writes.
StoreLocalsSharedPosition(rs, r, f) ==
    [q \in DOMAIN rs |->
        IF q = r THEN f
        ELSE IF rs[q].pc = "sharp" /\ f.pc = "sharp" /\ Len(rs[q].compressedFiles) = 0
             THEN [rs[q] EXCEPT !.k = f.k]
             ELSE rs[q]]

\* let currentFiles, let pdfBytes, const compressionStrategies, const
\* compressedFiles, const pdfDoc: all declared inside the functions, so a step
\* of invocation r writes the frame of r only.
StoreLocals(rs, r, f) == [rs EXCEPT ![r] = f]

\* History: the values aiServiceAvailable had at the steps of the invocation.
Observed(before, after) ==
    [after EXCEPT !.flags = before.flags \cup {ai.available}]

\* Lines 133-145 up to the first await of generatePdfFromFiles(currentFiles).
EnterStep(f) ==
    IF NoFilesProvided(f.files)
    THEN FrameThrow(f, EmptyInputError)
    ELSE [f EXCEPT !.pc = "embed", !.k = 0, !.i = 1, !.pages = <<>>]

\* The list generatePdfFromFiles was called with (lines 145 and 166).
EmbedSource(f) == IF f.k = 0 THEN f.files ELSE f.compressedFiles

\* One iteration of the loop of lines 188-209.
EmbedStep(f) ==
    LET file == EmbedSource(f)[f.i]
    IN  IF EmbedJpg(file.buffer)
        THEN [f EXCEPT !.pages = Append(@, AddImagePage(file.buffer)),
                       !.i = @ + 1,
                       !.pc = IF f.i = Len(EmbedSource(f)) THEN "save" ELSE "embed"]
        ELSE FrameThrow(f, ProcessError(file))

\* pdfDoc.save() (line 211), then the caller up to its next await: lines
\* 148-165 after the first pass, lines 168-182 after a strategy.
SaveStep(f) ==
    LET pdf == PdfOfPass(f.k, PdfSave(f.pages))
        toLadder(k) == [f EXCEPT !.pdfBytes = pdf, !.k = k, !.i = 1,
                                 !.compressedFiles = <<>>, !.pages = <<>>,
                                 !.pc = "sharp"]
    IN  IF f.k = 0
        THEN IF ExceedsLimit(pdf, f.maxSizeBytes)
             THEN toLadder(1)
             ELSE FrameReturn(f, pdf)
        ELSE IF MeetsLimit(pdf, f.maxSizeBytes)
             THEN FrameReturn(f, pdf)
             ELSE IF HasNextStrategy(f.k)
                  THEN toLadder(NextStrategy(f.k))
                  ELSE FrameReturn(f, pdf)

\* One iteration of the loop of lines 93-127 for strategy k.
SharpStep(f) ==
    LET file == CompressInput(f)[f.i]
        outcome == OracleOutcome(f.oracle, f.k, f.i)
        pushed == IF outcome.kind = "fail"
                  THEN file
                  ELSE [file EXCEPT !.buffer =
                          SharpReencode(file.buffer, compressionStrategies[f.k], outcome)]
        last == f.i = Len(CompressInput(f))
    IN  [f EXCEPT !.compressedFiles = Append(@, pushed),
                  !.i = IF last THEN 1 ELSE @ + 1,
                  !.pages = <<>>,
                  !.pc = IF last THEN "embed" ELSE "sharp"]

ConcEnter(r) ==
    /\ reqs[r].pc = "enter"
    /\ reqs' = StoreLocals(reqs, r, Observed(reqs[r], EnterStep(reqs[r])))
    /\ UNCHANGED <<mode, pc, http, asm, hist, cli, ai>>

ConcEmbed(r) ==
    /\ reqs[r].pc = "embed"
    /\ reqs' = StoreLocals(reqs, r, Observed(reqs[r], EmbedStep(reqs[r])))
    /\ UNCHANGED <<mode, pc, http, asm, hist, cli, ai>>

ConcSave(r) ==
    /\ reqs[r].pc = "save"
    /\ reqs' = StoreLocals(reqs, r, Observed(reqs[r], SaveStep(reqs[r])))
    /\ UNCHANGED <<mode, pc, http, asm, hist, cli, ai>>

ConcSharp(r) ==
    /\ reqs[r].pc = "sharp"
    /\ reqs' = StoreLocals(reqs, r, Observed(reqs[r], SharpStep(reqs[r])))
    /\ UNCHANGED <<mode, pc, http, asm, hist, cli, ai>>

\* createPdfFromBuffers(files, maxSizeBytes) run alone, as one function of its
\* arguments and of what sharp does.
RECURSIVE AloneLadder(_, _, _, _)
AloneLadder(files, maxSizeBytes, oracle, k) ==
    LET c == compressImages(files, compressionStrategies[k],
                            [i \in 1..Len(files) |-> OracleOutcome(oracle, k, i)])
        g == generatePdfFromFiles(c.files)
        pdf == PdfOfPass(k, g.pdf)
    IN  IF ~g.ok
        THEN [kind |-> "error", pdf |-> NoPdf, error |-> g.error]
        ELSE IF MeetsLimit(pdf, maxSizeBytes) \/ ~HasNextStrategy(k)
             THEN [kind |-> "value", pdf |-> pdf, error |-> NoError]
             ELSE AloneLadder(files, maxSizeBytes, oracle, NextStrategy(k))

Alone(files, maxSizeBytes, oracle) ==
    IF NoFilesProvided(files)
    THEN [kind |-> "error", pdf |-> NoPdf, error |-> EmptyInputError]
    ELSE LET g == generatePdfFromFiles(files)
         IN  IF ~g.ok
             THEN [kind |-> "error", pdf |-> NoPdf, error |-> g.error]
             ELSE IF ExceedsLimit(g.pdf, maxSizeBytes)
                  THEN AloneLadder(files, maxSizeBytes, oracle, 1)
                  ELSE [kind |-> "value", pdf |-> PdfOfPass(0, g.pdf),
                        error |-> NoError]

\* The requests of the concurrent runs: MaxFiles images of MaxBufMiB each, the
\* last of them a JPEG or not.
ConcFileLists ==
    { [i \in 1..MaxFiles |-> UploadedFile(i, i < MaxFiles \/ ok, MaxBufMiB)] :
        ok \in BOOLEAN }

ConcBudgets == {Null} \cup {Num(b * MiB) : b \in 1..MaxBudgetMB}

InitConc ==
    /\ mode = "conc"
    /\ pc = "server"
    /\ http = HttpIdle
    /\ asm = AsmIdle
    /\ hist = HistInit
    /\ cli = CliIdle
    /\ ai = AiIdle
    /\ reqs \in [Requests ->
                   {FrameCall(fs, b, o) :
                      fs \in ConcFileLists, b \in ConcBudgets, o \in SharpOracles}]

NextConc ==
    \E r \in Requests :
        \/ ConcEnter(r)
        \/ ConcEmbed(r)
        \/ ConcSave(r)
        \/ ConcSharp(r)

SpecConc == InitConc /\ [][NextConc]_vars

\* checkAIServiceHealth (lines 20-45), at startup (line 449) or for
\* GET /api/ai/status (line 247): the flag follows response.ok, and is false
\* when fetch rejects.
CheckAIServiceHealth ==
    /\ \E ok \in BOOLEAN : ai' = [ai EXCEPT !.available = ok]
    /\ UNCHANGED <<mode, pc, http, asm, hist, cli, reqs>>

\* Lines 255-300 and 319-388: the guard, the validation, and the request sent
\* to the AI service.
AiReceive(r) ==
    /\ ai.req[r].pc = "recv"
    /\ LET q == [ai.req[r] EXCEPT !.flagRead = IF ai.available THEN "true" ELSE "false"]
       IN  IF AiGuard(ai.available, q.body)
           THEN ai' = [ai EXCEPT !.req[r] =
                         [q EXCEPT !.pc = "done",
                                   !.response = AiUnavailableResponse(
                                                  <<"AI service is not available">>)]]
           ELSE IF q.body = "invalid"
                THEN ai' = [ai EXCEPT !.req[r] =
                              [q EXCEPT !.pc = "done",
                                        !.response = AiBadRequestResponse(
                                                       ValidationError(q.kind))]]
                ELSE IF q.body = "malformed"
                     THEN ai' = [ai EXCEPT
                                   !.available = AvailableAfterCatch(@),
                                   !.req[r] =
                                     [q EXCEPT !.pc = "done",
                                               !.response = AiUnavailableResponse(
                                                              <<"TypeError">>)]]
                     ELSE ai' = [ai EXCEPT !.req[r] =
                                   [q EXCEPT !.pc = "calling", !.calls = @ + 1]]
    /\ UNCHANGED <<mode, pc, http, asm, hist, cli, reqs>>

\* Lines 47-71 and 302-315, 390-420: the AI service answers or fails.
AiReturn(r) ==
    /\ ai.req[r].pc = "calling"
    /\ \/ ai' = [ai EXCEPT
                   !.available = AvailableAfterCatch(@),
                   !.req[r] = [@ EXCEPT !.pc = "done",
                                        !.response = AiUnavailableResponse(
                                            <<"AI service responded with status ", "500">>)]]
       \/ /\ ai.req[r].kind = "analyze"
          /\ \E summary \in AiSummaries :
               ai' = [ai EXCEPT !.req[r] =
                        [@ EXCEPT !.pc = "done",
                                  !.response = AiResultResponse(Trim(summary), FALSE)]]
       \/ /\ ai.req[r].kind = "generate-filename"
          /\ \E filename \in AiFilenames :
               LET g == GeneratedFilename(filename)
               IN  ai' = [ai EXCEPT !.req[r] =
                            [@ EXCEPT !.pc = "done",
                                      !.response = AiResultResponse(g.name, g.truncated)]]
    /\ UNCHANGED <<mode, pc, http, asm, hist, cli, reqs>>

\* The server after app.listen, with requests to the AI endpoints arriving.
InitAI ==
    /\ mode = "ai"
    /\ pc = "server"
    /\ http = HttpIdle
    /\ asm = AsmIdle
    /\ hist = HistInit
    /\ cli = CliIdle
    /\ reqs = ReqsIdle
    /\ \E q \in [AiRequests -> {AiRequest(k, b) : k \in AiKinds, b \in AiBodies}] :
         ai = [available |-> FALSE, req |-> q]

NextAI ==
    \/ CheckAIServiceHealth
    \/ \E r \in AiRequests : AiReceive(r) \/ AiReturn(r)

SpecAI == InitAI /\ [][NextAI]_vars

\* One generate-pdf invocation while health checks and a request to
\* /api/ai/analyze run.
InitPdfAI ==
    /\ mode = "pdfai"
    /\ pc = "server"
    /\ http = HttpIdle
    /\ asm = AsmIdle
    /\ hist = HistInit
    /\ cli = CliIdle
    /\ \E fs \in ConcFileLists, b \in ConcBudgets, o \in SharpOracles :
         reqs = [ReqsIdle EXCEPT ![1] = FrameCall(fs, b, o)]
    /\ \E body \in {"valid", "malformed"} :
         ai = [AiIdle EXCEPT !.req[1] = AiRequest("analyze", body)]

NextPdfAI == NextConc \/ NextAI

SpecPdfAI == InitPdfAI /\ [][NextPdfAI]_vars

(***************************************************************************)
(* The system: one HTTP request, one direct call createPdfFromBuffers(files)*)
(* with the default maxSizeBytes = null, or one run of the command-line    *)
(* converter.                                                              *)
(***************************************************************************)
InitHttp ==
    /\ mode = "http"
    /\ pc = "http_recv"
    /\ \E fs \in FileLists, d \in BOOLEAN, f \in MaxSizeMBFields :
         /\ (~d => fs = <<>>)
         /\ http = [HttpIdle EXCEPT !.filesDefined = d, !.files = fs, !.maxSizeMB = f]
    /\ asm = AsmIdle

InitDirect ==
    /\ mode = "direct"
    /\ pc = "asm_start"
    /\ http = HttpIdle
    /\ \E fs \in FileLists : asm = AsmCall(fs, Null)

InitCli ==
    /\ mode = "cli"
    /\ pc = "cli_start"
    /\ http = HttpIdle
    /\ asm = AsmIdle
    /\ \E dir \in SUBSET DirPool : cli = CliInit(dir)

\* A direct call createPdfFromBuffers(files, maxSizeBytes) with a budget.
InitBudget ==
    /\ mode = "budget"
    /\ pc = "asm_start"
    /\ http = HttpIdle
    /\ \E fs \in FileLists, b \in 1..MaxBudgetMB : asm = AsmCall(fs, Num(b * MiB))
    /\ cli = CliIdle
    /\ hist = HistInit
    /\ reqs = ReqsIdle
    /\ ai = AiIdle

\* The same direct calls, followed for the failures of sharp.
InitRecompress ==
    /\ mode = "recompress"
    /\ pc = "asm_start"
    /\ http = HttpIdle
    /\ \E fs \in FileLists, b \in 1..MaxBudgetMB : asm = AsmCall(fs, Num(b * MiB))
    /\ cli = CliIdle
    /\ hist = HistInit
    /\ reqs = ReqsIdle
    /\ ai = AiIdle

Init ==
    /\ \/ InitHttp /\ cli = CliIdle
       \/ InitDirect /\ cli = CliIdle
       \/ InitCli
    /\ hist = HistInit
    /\ reqs = ReqsIdle
    /\ ai = AiIdle

Next ==
    \/ HttpReceive
    \/ AsmStart
    \/ LadderCompress
    \/ LadderGenerate
    \/ HttpRespond
    \/ CliGetJpgFiles
    \/ CliCreatePdf

Spec == Init /\ [][Next]_vars

NextBudget ==
    \/ AsmStart
    \/ LadderCompress
    \/ LadderGenerate

SpecBudget == InitBudget /\ [][NextBudget]_vars

SpecRecompress == InitRecompress /\ [][NextBudget]_vars

(***************************************************************************)
(* Properties.                                                             *)
(***************************************************************************)
\* createPdfFromBuffers has been called / has returned or thrown.
AsmCalled == pc \in {"asm_start", "ladder_compress", "ladder_generate", "asm_done"}
             \/ (pc = "http_done" /\ asm.ret.kind # "none")
AsmEnded == asm.ret.kind # "none"
Returned == asm.ret.kind = "value"
Threw == asm.ret.kind = "error"

\* The PDF of the original images of the call.
OriginalPass == generatePdfFromFiles(asm.files)

\* C1: when no budget is set, or the PDF built from the original images is
\* not longer than maxSizeBytes, that first PDF is what the call returns,
\* compressImages is never called and there is exactly one assembly pass.
C1_FirstPdfWithoutCompression ==
    (/\ AsmCalled
     /\ asm.files # <<>>
     /\ OriginalPass.ok
     /\ \/ asm.maxSizeBytes.kind = "null"
        \/ /\ asm.maxSizeBytes.kind = "num"
           /\ OriginalPass.pdf.length <= asm.maxSizeBytes.val)
    => /\ hist.compressCalls = 0
       /\ hist.genCalls <= 1
       /\ ~Threw
       /\ pc # "asm_start" => /\ Returned
                              /\ asm.ret.pdf = PdfOfPass(0, OriginalPass.pdf)
                              /\ hist.genCalls = 1

\* C1 witness: a numeric budget met exactly by the PDF of the originals.
C1_Witness ==
    /\ Returned
    /\ asm.ret.pdf.pass = 0
    /\ asm.maxSizeBytes.kind = "num"
    /\ asm.ret.pdf.length = asm.maxSizeBytes.val

\* C2: when the PDF of the originals exceeds the budget, the strategies are
\* attempted in ladder order, strategy k + 1 only after strategy k was
\* measured over the budget, none after one that was measured within it, and
\* the PDF returned is that of the first strategy measured within the budget.
C2_FirstFittingStrategyWins ==
    LET att == hist.attempted
    IN  /\ \A j \in 1..Len(att) : att[j] = j
        /\ \A j \in 2..Len(att) : (att[j] - 1) \in hist.measuredOver
        /\ \A f \in hist.measuredFit :
              /\ Len(att) = f
              /\ \A j \in 1..(f - 1) : j \in hist.measuredOver
              /\ Returned
              /\ asm.ret.pdf.pass = f
              /\ asm.ret.pdf.length <= asm.maxSizeBytes.val
        /\ (Returned /\ asm.ret.pdf.pass >= 1 /\ hist.measuredFit = {})
              => hist.measuredOver = 1..LadderLen

\* C2 witness: the third strategy is the first to meet the budget, exactly.
C2_Witness ==
    /\ Returned
    /\ asm.ret.pdf.pass = 3
    /\ hist.measuredOver = {1, 2}
    /\ asm.ret.pdf.length = asm.maxSizeBytes.val

\* C3: when every strategy yields a PDF over the budget the call does not
\* fail, it returns the PDF of the last strategy; and a call fails only on an
\* empty input or on an image that cannot be embedded.
C3_BudgetUnmetIsNoError ==
    /\ (AsmEnded /\ hist.measuredOver = 1..LadderLen)
          => /\ Returned
             /\ asm.ret.pdf.pass = LadderLen
             /\ asm.ret.pdf.length > asm.maxSizeBytes.val
    /\ asm.k <= LadderLen
    /\ Threw => \/ /\ asm.files = <<>>
                   /\ asm.ret.error = EmptyInputError
                \/ /\ hist.failedAt \in 1..Len(asm.files)
                   /\ asm.ret.error = ProcessError(asm.files[hist.failedAt])

\* C3 witness: the ladder is exhausted and the over-budget PDF of the last
\* strategy is returned.
C3_Witness ==
    /\ Returned
    /\ hist.measuredOver = 1..LadderLen
    /\ Len(hist.attempted) = LadderLen
    /\ asm.ret.pdf.pass = LadderLen
    /\ asm.ret.pdf.length > asm.maxSizeBytes.val

\* The steps the program may still take: it falls with every step.
StepsLeft ==
    CASE pc = "http_recv" -> 2 * LadderLen + 4
      [] pc = "asm_start" -> 2 * LadderLen + 3
      [] pc = "ladder_compress" -> 2 * (LadderLen - asm.k) + 3
      [] pc = "ladder_generate" -> 2 * (LadderLen - asm.k) + 2
      [] pc = "asm_done" -> 1
      [] pc = "cli_start" -> 2
      [] pc = "cli_create" -> 1
      [] OTHER -> 0

\* C4: a call makes at most len(ladder) + 1 = 10 calls of generatePdfFromFiles
\* and at most 9 calls of compressImages, attempts no strategy twice, and
\* every step brings it nearer to its end.
C4_BoundedPasses ==
    /\ [](/\ hist.genCalls <= LadderLen + 1
          /\ hist.compressCalls <= LadderLen
          /\ LadderLen + 1 = 10
          /\ \A i, j \in 1..Len(hist.attempted) :
                hist.attempted[i] = hist.attempted[j] => i = j
          /\ StepsLeft >= 0)
    /\ [][StepsLeft' < StepsLeft]_vars

\* C4 witness: a call that made all 10 assembly passes and 9 compressions.
C4_Witness ==
    /\ AsmEnded
    /\ hist.genCalls = LadderLen + 1
    /\ hist.compressCalls = LadderLen

\* C5: what compressImages is given at every strategy is the caller's list of
\* original files: no buffer it is given, and no buffer of any compressed
\* list, has been through a recompression before.
C5_RecompressFromOriginals ==
    /\ hist.compressCalls > 0 =>
          /\ hist.cmpInput = asm.files
          /\ mode = "http" => hist.cmpInput = http.files
          /\ \A i \in 1..Len(hist.cmpInput) : hist.cmpInput[i].buffer.gen = 0
    /\ \A i \in 1..Len(asm.compressedFiles) : asm.compressedFiles[i].buffer.gen <= 1
    /\ \A i \in 1..Len(asm.pdfBytes.pages) : asm.pdfBytes.pages[i].image.gen <= 1
    /\ \A i \in 1..Len(asm.ret.pdf.pages) : asm.ret.pdf.pages[i].image.gen <= 1

\* C5 witness: an image recompressed at one strategy is recompressed again
\* at the next.
C5_Witness ==
    /\ pc = "ladder_generate"
    /\ asm.k >= 2
    /\ \E i \in 1..Len(asm.files) :
          /\ asm.pdfBytes.pages[i].image.gen = 1
          /\ asm.compressedFiles[i].buffer.gen = 1
          /\ asm.compressedFiles[i].buffer.quality = compressionStrategies[asm.k].quality

\* C6: a returned PDF has one page per input image, page i holding the image
\* derived from input image i; and the list compressImages returns has the
\* length and the order of its input, also when images fail to recompress.
C6_PagesFollowInput ==
    /\ Returned =>
          /\ Len(asm.ret.pdf.pages) = Len(asm.files)
          /\ \A i \in 1..Len(asm.files) :
                asm.ret.pdf.pages[i].image.id = asm.files[i].buffer.id
    /\ (pc = "http_done" /\ http.response.type = "pdf") =>
          /\ Len(http.response.pdf.pages) = Len(http.files)
          /\ \A i \in 1..Len(http.files) :
                http.response.pdf.pages[i].image.id = http.files[i].buffer.id
    /\ pc = "ladder_generate" =>
          /\ Len(asm.compressedFiles) = Len(hist.cmpInput)
          /\ \A i \in 1..Len(hist.cmpInput) :
                /\ asm.compressedFiles[i].originalname = hist.cmpInput[i].originalname
                /\ asm.compressedFiles[i].buffer.id = hist.cmpInput[i].buffer.id

\* C6 witness: a two-page PDF of a ladder strategy at which the first image
\* failed to recompress and the second did not.
C6_Witness ==
    /\ Returned
    /\ asm.ret.pdf.pass >= 1
    /\ Len(asm.files) = 2
    /\ hist.sharpFailed = {1}
    /\ asm.ret.pdf.pages[1].image.gen = 0
    /\ asm.ret.pdf.pages[2].image.gen = 1

\* An embed failed at position hist.failedAt of pass hist.failedPass.
EmbedFailed == hist.failedPass >= 0

Contains(message, part) == \E j \in 1..Len(message) : message[j] = part

C8_EmbedFailureAborts ==
    /\ [](/\ Returned =>
                /\ Len(asm.ret.pdf.pages) = Len(asm.files)
                /\ \A i \in 1..Len(asm.ret.pdf.pages) :
                      EmbedJpg(asm.ret.pdf.pages[i].image)
          /\ (AsmCalled /\ \E i \in 1..Len(asm.files) : ~EmbedJpg(asm.files[i].buffer))
                => ~Returned /\ http.response.type # "pdf"
          /\ EmbedFailed =>
                /\ Threw
                /\ asm.ret.pdf = NoPdf
                /\ pc = "http_done" =>
                      /\ http.response.status = 500
                      /\ http.response.type = "json"
                      /\ http.response.pdf = NoPdf
                      /\ http.response.error = asm.ret.error.message)
    /\ [][(/\ pc = "asm_start"
           /\ \E i \in 1..Len(asm.files) : ~EmbedJpg(asm.files[i].buffer))
          => (asm'.ret.kind = "error" /\ hist'.failedPass = 0)]_vars
    /\ [][(/\ pc = "ladder_generate"
           /\ \E i \in 1..Len(asm.compressedFiles) :
                 ~EmbedJpg(asm.compressedFiles[i].buffer))
          => (asm'.ret.kind = "error" /\ hist'.failedPass = asm.k)]_vars

\* C8 witness: the second image fails to embed in the second ladder pass,
\* after two passes that produced a PDF, and the handler has answered 500.
C8_Witness ==
    /\ pc = "http_done"
    /\ hist.failedPass = 2
    /\ hist.failedAt = 2
    /\ hist.genCalls = 3
    /\ http.response.status = 500

\* C9: with no image, createPdfFromBuffers throws `No files provided` before
\* any PDF document, embed or compression; the handler answers 400 without
\* calling it; and the command-line converter fails with `No JPG files found
\* in input directory`, exit status 1 and no PDF document or output file.
C9_EmptyInputFailsFirst ==
    /\ (mode # "cli" /\ asm.files = <<>>) =>
          /\ hist = HistInit
          /\ ~Returned
          /\ pc = "asm_done" => /\ Threw
                                /\ asm.ret.error.message = <<"No files provided">>
    /\ (mode = "http" /\ Len(http.files) = 0) =>
          /\ asm = AsmIdle
          /\ hist = HistInit
          /\ pc = "http_done" => /\ http.response.status = 400
                                 /\ http.response.type = "json"
                                 /\ http.response.pdf = NoPdf
    /\ (mode = "cli" /\ cli.listed /\ cli.jpgFiles = <<>>) =>
          /\ cli.docsCreated = 0
          /\ cli.pages = <<>>
          /\ ~cli.written
          /\ pc = "cli_done" =>
                /\ cli.exit = 1
                /\ cli.error = <<"No JPG files found in input directory">>

\* C9 witness: a direct call with an empty list has thrown.
C9_Witness ==
    /\ mode = "direct"
    /\ pc = "asm_done"
    /\ asm.files = <<>>
    /\ Threw

\* C10: compressImages never throws; the slot of an image that sharp fails on
\* carries the original file with its buffer, and every other image of the
\* pass is recompressed from its original with the strategy.
C10_RecompressionFailureAbsorbed ==
    /\ (Threw /\ asm.files # <<>>) =>
          /\ EmbedFailed
          /\ hist.genCalls = hist.compressCalls + 1
    /\ hist.compressCalls > 0 => \/ pc = "ladder_generate"
                                 \/ hist.genCalls = hist.compressCalls + 1
    /\ pc = "ladder_generate" =>
          /\ Len(asm.compressedFiles) = Len(asm.files)
          /\ \A i \in 1..Len(asm.files) :
                IF i \in hist.sharpFailed
                THEN asm.compressedFiles[i] = asm.files[i]
                ELSE LET strategy == compressionStrategies[asm.k]
                         out == asm.compressedFiles[i]
                         dims == ResizeInside(asm.files[i].buffer.width,
                                              asm.files[i].buffer.height,
                                              strategy.maxWidth, strategy.maxHeight)
                     IN  /\ out.originalname = asm.files[i].originalname
                         /\ out.buffer.id = asm.files[i].buffer.id
                         /\ out.buffer.quality = strategy.quality
                         /\ out.buffer.gen = 1
                         /\ out.buffer.width = dims.width
                         /\ out.buffer.height = dims.height

\* C10 witness: in one pass sharp fails on the first image and recompresses
\* the second.
C10_Witness ==
    /\ pc = "ladder_generate"
    /\ Len(asm.files) = 2
    /\ hist.sharpFailed = {1}
    /\ asm.compressedFiles[1] = asm.files[1]
    /\ asm.compressedFiles[2].buffer.gen = 1


(***************************************************************************)
(* C11: when no strategy reaches the budget, the PDF returned is no longer *)
(* than the PDF of the original images and no longer than the PDF of any   *)
(* strategy before the last.                                               *)
(***************************************************************************)
LadderRanOut ==
    /\ mode = "budget"
    /\ Returned
    /\ asm.ret.pdf.pass = LadderLen
    /\ LadderLen \in hist.measuredOver

C11_ExhaustedResultIsSmallest ==
    LadderRanOut => asm.ret.pdf.length <= hist.minBefore

(***************************************************************************)
(* C13: the ladder is a fixed constant that grows more aggressive: quality *)
(* strictly decreases from each strategy to the next, no strategy without  *)
(* caps follows one with caps, caps never increase from one capped         *)
(* strategy to the next, a capped strategy sets maxWidth and maxHeight     *)
(* together, and the last strategy is quality 15 with an 800px cap.  The   *)
(* images re-encoded for strategy k carry that strategy's quality and fit  *)
(* its caps.                                                               *)
(***************************************************************************)
Capped(strategy) == strategy.maxWidth # 0 \/ strategy.maxHeight # 0

FitsCaps(buffer, strategy) ==
    Capped(strategy) =>
        buffer.width <= strategy.maxWidth /\ buffer.height <= strategy.maxHeight

C13_LadderGrowsMoreAggressive ==
    /\ \A i \in 1..(LadderLen - 1) :
         LET s == compressionStrategies[i]
             t == compressionStrategies[i + 1]
         IN  /\ t.quality < s.quality
             /\ Capped(s) => Capped(t)
             /\ Capped(s) => t.maxWidth <= s.maxWidth /\ t.maxHeight <= s.maxHeight
    /\ \A i \in 1..LadderLen :
         (compressionStrategies[i].maxWidth # 0) <=> (compressionStrategies[i].maxHeight # 0)
    /\ compressionStrategies[LadderLen] = [quality |-> 15, maxWidth |-> 800, maxHeight |-> 800]
    /\ pc = "ladder_generate" =>
         \A i \in 1..Len(asm.compressedFiles) :
            LET b == asm.compressedFiles[i].buffer
            IN  b.gen = 1 =>
                  /\ b.quality = compressionStrategies[asm.k].quality
                  /\ FitsCaps(b, compressionStrategies[asm.k])
    /\ pc = "ladder_generate" /\ asm.k > 1 =>
         \A i \in 1..Len(asm.pdfBytes.pages) :
            LET p == asm.pdfBytes.pages[i].image
            IN  p.gen = 1 =>
                  p.quality > compressionStrategies[asm.k].quality

\* The last strategy has re-encoded a 3000x2000 image at quality 15 inside
\* 800x800.
C13_Witness ==
    /\ pc = "ladder_generate"
    /\ asm.k = LadderLen
    /\ \E i \in 1..Len(asm.compressedFiles) :
         LET b == asm.compressedFiles[i].buffer
         IN  b.gen = 1 /\ b.quality = 15 /\ b.width = 800 /\ b.height = 533

(***************************************************************************)
(* C14: under any interleaving of two invocations at their await points,   *)
(* each invocation returns exactly what createPdfFromBuffers returns for   *)
(* its files, its budget and its sharp outcomes when it runs alone; while  *)
(* it runs, it holds its own arguments.                                    *)
(***************************************************************************)
C14_ConcurrentRequestsDoNotInterfere ==
    \A r \in Requests :
        reqs[r].pc = "done" =>
            reqs[r].ret = Alone(reqs[r].files, reqs[r].maxSizeBytes, reqs[r].oracle)

\* Two invocations with different budgets were both inside the ladder at
\* different strategies, and both have returned, one from a strategy that
\* fits and one from the last strategy.
C14_Witness ==
    /\ mode = "conc"
    /\ reqs[1].pc = "done" /\ reqs[2].pc = "done"
    /\ reqs[1].ret.kind = "value" /\ reqs[2].ret.kind = "value"
    /\ reqs[1].ret.pdf.pass = 5
    /\ reqs[2].ret.pdf.pass = LadderLen
    /\ reqs[1].maxSizeBytes # reqs[2].maxSizeBytes

(***************************************************************************)
(* C15: every page is as wide and as high, in points, as the JPEG buffer   *)
(* embedded on it is in pixels, and the image is drawn at (0,0) with that  *)
(* width and height; the pages of the first pass have the pixel size of    *)
(* the uploaded images.                                                    *)
(***************************************************************************)
PageIsImageSized(p) ==
    /\ p.width = p.image.width
    /\ p.height = p.image.height
    /\ p.x = 0 /\ p.y = 0
    /\ p.drawWidth = p.image.width
    /\ p.drawHeight = p.image.height

AllImageSized(pages) == \A i \in 1..Len(pages) : PageIsImageSized(pages[i])

C15_PageSizeIsImageSize ==
    /\ AllImageSized(asm.pdfBytes.pages)
    /\ AllImageSized(asm.ret.pdf.pages)
    /\ AllImageSized(http.response.pdf.pages)
    /\ \A i \in 1..Len(cli.pages) : PageIsImageSized(cli.pages[i].page)
    /\ \A i \in 1..Len(asm.ret.pdf.pages) :
         LET p == asm.ret.pdf.pages[i]
         IN  /\ p.image.gen = 0 =>
                  p.width = ImageDims[i].width /\ p.height = ImageDims[i].height
             /\ p.width <= ImageDims[i].width /\ p.height <= ImageDims[i].height

\* A PDF returned from a capped strategy whose first page is the 3000x2000
\* image re-encoded inside 2048x2048, and whose second page is an image left
\* at its 1000x1500 pixels.
C15_Witness ==
    /\ Returned
    /\ Len(asm.ret.pdf.pages) = 2
    /\ asm.ret.pdf.pages[1].image.gen = 1
    /\ asm.ret.pdf.pages[1].width = 2048 /\ asm.ret.pdf.pages[1].height = 1365
    /\ asm.ret.pdf.pages[2].width = 1000 /\ asm.ret.pdf.pages[2].height = 1500

(***************************************************************************)
(* C16: the command-line converter selects exactly the directory entries   *)
(* whose extension, compared without regard to case, is .jpg or .jpeg,     *)
(* orders them alphabetically by file name, and adds one page per selected *)
(* file in that order.                                                     *)
(***************************************************************************)
\* Alphabetical order: letter by letter, a capital letter standing where its
\* small letter stands.
RECURSIVE AlphabeticallyBefore(_, _)
AlphabeticallyBefore(a, b) ==
    IF b = <<>> THEN FALSE
    ELSE IF a = <<>> THEN TRUE
    ELSE IF CharToLower(Head(a)) # CharToLower(Head(b))
         THEN CodeOf(CharToLower(Head(a))) < CodeOf(CharToLower(Head(b)))
         ELSE AlphabeticallyBefore(Tail(a), Tail(b))

C16_CliPagesInAlphabeticalOrder ==
    cli.listed =>
        /\ {cli.jpgFiles[i] : i \in 1..Len(cli.jpgFiles)} =
              {f \in cli.dir : ToLowerCase(extname(f)) \in
                                 {<<".", "j", "p", "g">>, <<".", "j", "p", "e", "g">>}}
        /\ Len(cli.jpgFiles) = Cardinality({f \in cli.dir : IsJpgName(f)})
        /\ \A i \in 1..Len(cli.jpgFiles) : \A j \in (i + 1)..Len(cli.jpgFiles) :
              AlphabeticallyBefore(cli.jpgFiles[i], cli.jpgFiles[j])
        /\ cli.exit = 0 =>
              /\ Len(cli.output) = Len(cli.jpgFiles)
              /\ \A i \in 1..Len(cli.output) : cli.output[i].name = cli.jpgFiles[i]

(***************************************************************************)
(* C17: whatever aiServiceAvailable is while a generate-pdf invocation     *)
(* runs, and whatever health checks and requests to the AI endpoints run   *)
(* before it or between its steps, the invocation ends with the result     *)
(* that its images, its budget and its sharp outcomes determine, and no    *)
(* step of the invocation changes aiServiceAvailable.                      *)
(***************************************************************************)
OutcomeSetByInputsAlone ==
    (mode = "pdfai" /\ reqs[1].pc = "done")
    => reqs[1].ret = Alone(reqs[1].files, reqs[1].maxSizeBytes, reqs[1].oracle)

C17_PdfIndependentOfAI ==
    /\ []OutcomeSetByInputsAlone
    /\ [][reqs' # reqs => ai' = ai]_vars

\* An invocation went through the ladder while the flag was first false and
\* then true, and returned; the request to /api/ai/analyze was answered with
\* a summary.
C17_Witness ==
    /\ mode = "pdfai"
    /\ reqs[1].pc = "done"
    /\ reqs[1].flags = {FALSE, TRUE}
    /\ reqs[1].ret.kind = "value"
    /\ reqs[1].ret.pdf.pass >= 1
    /\ ai.req[1].response.available = "true"

(***************************************************************************)
(* C18: a request to /api/ai/analyze or /api/ai/generate-filename that     *)
(* finds aiServiceAvailable false is answered with available: false and a  *)
(* null result, whatever its body (a body that fails validation gets no    *)
(* 400), and sends nothing to the AI service.                              *)
(***************************************************************************)
C18_UnavailableAnswersWithoutWork ==
    \A r \in AiRequests :
        ai.req[r].flagRead = "false" =>
            /\ ai.req[r].pc = "done"
            /\ ai.req[r].response.status = 200
            /\ ai.req[r].response.available = "false"
            /\ ai.req[r].response.result = "null"
            /\ ai.req[r].response.error = <<"AI service is not available">>
            /\ ai.req[r].calls = 0

\* A request whose body fails validation found the flag false and got the
\* unavailable answer, while the other request found it true and called the
\* AI service.
C18_Witness ==
    /\ mode = "ai"
    /\ ai.req[1].body = "invalid"
    /\ ai.req[1].flagRead = "false"
    /\ ai.req[1].pc = "done"
    /\ ai.req[1].response.available = "false"
    /\ ai.req[2].flagRead = "true"
    /\ ai.req[2].calls = 1

(***************************************************************************)
(* C19: every filename that /api/ai/generate-filename answers with         *)
(* available: true is at most 50 characters long, extension included, and  *)
(* ends with .pdf, whatever string the AI service returned.                *)
(***************************************************************************)
FilenameAnswered(r) ==
    /\ ai.req[r].kind = "generate-filename"
    /\ ai.req[r].pc = "done"
    /\ ai.req[r].response.available = "true"

C19_FilenameShortAndDotPdf ==
    \A r \in AiRequests :
        FilenameAnswered(r) =>
            /\ Len(ai.req[r].response.value) <= 50
            /\ EndsWith(ai.req[r].response.value, <<".", "p", "d", "f">>)

(***************************************************************************)
(* C19, amended: every such filename is at most 50 characters long and     *)
(* ends with .pdf in some capitalisation: the extension the AI service     *)
(* wrote is kept as written, and it is the lower-case .pdf when the name   *)
(* was truncated, in which case the name is exactly 50 characters long.    *)
(***************************************************************************)
C19_FilenameShortAndPdfAnyCase ==
    \A r \in AiRequests :
        FilenameAnswered(r) =>
            /\ Len(ai.req[r].response.value) <= 50
            /\ EndsWith(ToLowerCase(ai.req[r].response.value), <<".", "p", "d", "f">>)
            /\ ai.req[r].response.truncated =>
                  /\ Len(ai.req[r].response.value) = 50
                  /\ EndsWith(ai.req[r].response.value, <<".", "p", "d", "f">>)

\* One filename was truncated to 50 characters, another was answered with
\* the upper-case extension the AI service wrote.
C19_Witness ==
    /\ FilenameAnswered(1) /\ FilenameAnswered(2)
    /\ ai.req[1].response.truncated
    /\ Len(ai.req[1].response.value) = 50
    /\ ~ai.req[2].response.truncated
    /\ EndsWith(ai.req[2].response.value, <<".", "P", "D", "F">>)

(***************************************************************************)
(* C20: createPdfFromBuffers never changes its input: while it runs and    *)
(* after it returns or throws, the caller's list holds the same files in   *)
(* the same order, each with its original buffer; the compressed images    *)
(* are other file objects, with the same names.                            *)
(***************************************************************************)
C20_InputNeverMutated ==
    /\ asm.files \in FileLists
    /\ (mode = "http" /\ AsmCalled) => asm.files = http.files
    /\ pc = "ladder_generate" =>
         /\ Len(asm.compressedFiles) = Len(asm.files)
         /\ \A i \in 1..Len(asm.files) :
              /\ asm.compressedFiles[i].originalname = asm.files[i].originalname
              /\ asm.files[i].buffer.gen = 0

\* A request whose images were re-encoded and whose answer is a PDF of the
\* re-encoded images, while the list of the request still holds the upload.
C20_Witness ==
    /\ mode = "http"
    /\ pc = "http_done"
    /\ http.response.status = 200
    /\ http.response.pdf.pass >= 1
    /\ \E i \in 1..Len(http.response.pdf.pages) :
         /\ http.response.pdf.pages[i].image.gen = 1
         /\ http.response.pdf.pages[i].image # asm.files[i].buffer
    /\ asm.files = http.files

(***************************************************************************)
(* C21: when sharp fails on every image at every strategy, every ladder    *)
(* pass assembles the original buffers: the PDF of every pass has the      *)
(* pages and the length of the PDF of the original images, all 9           *)
(* strategies are attempted, and the call returns the PDF of the last      *)
(* strategy, over the budget, with the pages of the original PDF.          *)
(***************************************************************************)
EveryRecompressionFailed ==
    /\ mode = "recompress"
    /\ hist.compressCalls > 0
    /\ hist.allFailed

C21_AllFailuresKeepOriginalPages ==
    EveryRecompressionFailed =>
        /\ pc = "ladder_generate" =>
              /\ asm.compressedFiles = asm.files
              /\ generatePdfFromFiles(asm.compressedFiles) = OriginalPass
        /\ ~AsmEnded =>
              /\ asm.pdfBytes.pages = OriginalPass.pdf.pages
              /\ asm.pdfBytes.length = OriginalPass.pdf.length
        /\ hist.measuredFit = {}
        /\ AsmEnded =>
              /\ Returned
              /\ hist.attempted = [k \in 1..LadderLen |-> k]
              /\ hist.compressCalls = LadderLen
              /\ asm.ret.pdf.pass = LadderLen
              /\ asm.ret.pdf.pages = OriginalPass.pdf.pages
              /\ asm.ret.pdf.length = OriginalPass.pdf.length
              /\ asm.ret.pdf.length > asm.maxSizeBytes.val

\* C21 witness: a two-image call whose recompression failed at all nine
\* strategies has returned its over-budget PDF.
C21_Witness ==
    /\ EveryRecompressionFailed
    /\ Returned
    /\ Len(asm.files) = 2
    /\ hist.compressCalls = LadderLen
    /\ asm.ret.pdf.pass = LadderLen
    /\ asm.ret.pdf.length > asm.maxSizeBytes.val

(***************************************************************************)
(* C22: a request whose maxSizeMB is missing, empty, "0" or not a number   *)
(* is assembled as with no budget: compressImages is not called and the    *)
(* PDF of the original images is what is returned.  A request whose        *)
(* maxSizeMB is the positive number n is assembled with maxSizeBytes =     *)
(* n * 1024 * 1024, and the ladder is entered exactly when the PDF of the  *)
(* original images is longer than that.                                    *)
(***************************************************************************)
FieldWithoutBudget(f) == ~f.present \/ f.text \in {"", "0", "abc"}

FieldPositive(f, n) == f.present /\ n > 0 /\ f.text = Decimal(n)

HandlerCalledAsm == mode = "http" /\ AsmCalled

C22_BudgetOnlyForNonZeroNumber ==
    HandlerCalledAsm =>
        /\ FieldWithoutBudget(http.maxSizeMB) =>
              /\ asm.maxSizeBytes \in {Null, NaN, Num(0)}
              /\ hist.compressCalls = 0
              /\ hist.genCalls <= 1
              /\ pc \notin {"ladder_compress", "ladder_generate"}
              /\ OriginalPass.ok /\ AsmEnded =>
                    /\ Returned
                    /\ asm.ret.pdf = PdfOfPass(0, OriginalPass.pdf)
        /\ \A n \in 1..MaxBudgetMB :
              FieldPositive(http.maxSizeMB, n) =>
                 /\ asm.maxSizeBytes = Num(n * 1024 * 1024)
                 /\ (OriginalPass.ok /\ pc # "asm_start") =>
                       /\ (OriginalPass.pdf.length > n * 1024 * 1024)
                             <=> (hist.compressCalls > 0 \/ pc = "ladder_compress")
                       /\ (OriginalPass.pdf.length <= n * 1024 * 1024) =>
                             /\ Returned
                             /\ asm.ret.pdf = PdfOfPass(0, OriginalPass.pdf)
                 /\ (Returned /\ asm.ret.pdf.pass \in 1..(LadderLen - 1)) =>
                       asm.ret.pdf.length <= n * 1024 * 1024
        /\ FieldWithoutBudget(http.maxSizeMB)
              \/ \E n \in 1..MaxBudgetMB : FieldPositive(http.maxSizeMB, n)

\* C22 witness: a request with maxSizeMB "0" has been answered with the PDF
\* of its two original images, longer than any budget of the model.
C22_Witness ==
    /\ mode = "http"
    /\ pc = "http_done"
    /\ http.maxSizeMB = Field("0")
    /\ Len(http.files) = 2
    /\ http.response.type = "pdf"
    /\ http.response.pdf.pass = 0
    /\ http.response.pdf.length = 2 * MaxBufMiB * MiB
    /\ hist.compressCalls = 0

(***************************************************************************)
(* C23: aiServiceAvailable starts false and rises only in a health check;  *)
(* a request that passed the guard and ends in the catch block clears it.  *)
(* As claimed, every answer of an AI endpoint given while the flag is      *)
(* false is available:false.                                               *)
(***************************************************************************)
\* Request r is answered in this step.
AiAnswers(r) == ai.req[r].pc # "done" /\ ai'.req[r].pc = "done"

\* The flag rises only in a step of checkAIServiceHealth, which is no step of
\* a request.
FlagRisesInHealthCheck ==
    (~ai.available /\ ai'.available) => ai'.req = ai.req

\* A request that got past the guard and is answered available:false went
\* through the catch block, and the flag is false after it.
ErrorClearsFlag ==
    \A r \in AiRequests :
        (/\ AiAnswers(r)
         /\ ai'.req[r].flagRead = "true"
         /\ ai'.req[r].response.available = "false") => ~ai'.available

\* While the flag is false no request is answered available:true.
NoAnswerAvailableWhileFlagFalse ==
    \A r \in AiRequests :
        (AiAnswers(r) /\ ~ai.available) => ai'.req[r].response.available # "true"

C23_FlagFalseGatesEveryAnswer ==
    /\ (mode = "ai" => ~ai.available)
    /\ [][FlagRisesInHealthCheck]_vars
    /\ [][ErrorClearsFlag]_vars
    /\ [][NoAnswerAvailableWhileFlagFalse]_vars

\* C23 as amended: the flag starts false, rises only in a health check and is
\* cleared by every request that ends in the catch block; a request that
\* reads the flag as false at its guard is answered available:false at once,
\* without a call of the AI service, and an answer available:true is given
\* only to a request that read the flag as true at its guard.
GuardReadsFlag ==
    \A r \in AiRequests :
        /\ ai.req[r].flagRead = "false" =>
              /\ ai.req[r].pc = "done"
              /\ ai.req[r].calls = 0
              /\ ai.req[r].response.available = "false"
        /\ ai.req[r].response.available = "true" => ai.req[r].flagRead = "true"

\* A request arriving while the flag is false reads it as false.
FlagFalseIsRead ==
    \A r \in AiRequests :
        (ai.req[r].pc = "recv" /\ ai'.req[r].pc # "recv" /\ ~ai.available)
            => ai'.req[r].flagRead = "false"

C23_FlagFalseGatesArrivingRequests ==
    /\ (mode = "ai" => ~ai.available)
    /\ [][FlagRisesInHealthCheck]_vars
    /\ [][ErrorClearsFlag]_vars
    /\ [][FlagFalseIsRead]_vars
    /\ []GuardReadsFlag

\* C23 witness: request 1 passed the guard and failed in the AI call, which
\* cleared the flag; request 2 arrived after it and was answered
\* available:false without a call.
C23_Witness ==
    /\ mode = "ai"
    /\ ~ai.available
    /\ ai.req[1].pc = "done"
    /\ ai.req[1].flagRead = "true"
    /\ ai.req[1].calls = 1
    /\ ai.req[1].response.available = "false"
    /\ ai.req[2].pc = "done"
    /\ ai.req[2].flagRead = "false"
    /\ ai.req[2].calls = 0
    /\ ai.req[2].response.available = "false"

(***************************************************************************)
(* C24: the command-line converter writes the output file only when the    *)
(* directory was read, it holds at least one JPG file, and every one of    *)
(* them was read and embedded, in which case the file has one page per     *)
(* selected file; when readdir fails, no JPG file is found, or a file      *)
(* fails to read or embed, nothing is written and the process exits with   *)
(* status 1.                                                               *)
(***************************************************************************)
CliReaddirFailed == pc = "cli_done" /\ ~cli.listed
CliNothingFound == pc = "cli_done" /\ cli.listed /\ cli.jpgFiles = <<>>
CliImageFailed ==
    /\ pc = "cli_done"
    /\ cli.listed
    /\ \/ Len(cli.pages) < Len(cli.jpgFiles)
       \/ cli.error \in {<<"readFile", " failed">>, <<"embedJpg", " failed">>}

C24_CliWritesOnlyCompletePdf ==
    mode = "cli" =>
        /\ cli.written =>
              /\ pc = "cli_done"
              /\ cli.listed
              /\ cli.jpgFiles # <<>>
              /\ Len(cli.pages) = Len(cli.jpgFiles)
              /\ \A j \in 1..Len(cli.jpgFiles) : cli.pages[j].name = cli.jpgFiles[j]
              /\ cli.output = cli.pages
              /\ cli.error = <<>>
              /\ cli.exit = 0
        /\ (CliReaddirFailed \/ CliNothingFound \/ CliImageFailed) =>
              /\ ~cli.written
              /\ cli.output = <<>>
              /\ cli.exit = 1
        /\ pc # "cli_done" => cli.exit = -1

\* C24 witness: of two selected files the first was embedded and the second
\* failed; nothing was written and the exit status is 1.
C24_Witness ==
    /\ mode = "cli"
    /\ pc = "cli_done"
    /\ Len(cli.jpgFiles) = 2
    /\ Len(cli.pages) = 1
    /\ cli.error = <<"embedJpg", " failed">>
    /\ ~cli.written
    /\ cli.exit = 1

====
